---- MODULE Spec2Model ----
(***************************************************************************)
(* nix-mcp: the Command Runner (run_nix_command) and the Tool Dispatcher   *)
(* (call_tool) of src/nix_mcp/server.py as a state machine.                *)
(*                                                                         *)
(* Text is a sequence of one-character strings, so that str.strip,         *)
(* str.split, str.startswith and json.loads are computed, not assumed.     *)
(***************************************************************************)
EXTENDS Integers, Sequences, FiniteSets, TLC

VARIABLES
    inbox,      \* requests the host has sent and the server has not dispatched
    sent,       \* number of requests the host has sent so far
    pc,         \* position of the one call_tool coroutine the loop is running
    call,       \* locals of that call: id, name, arguments, args, log_file, ...
    now,        \* the reading datetime.now() returns (naive local wall clock)
    files,      \* /tmp: log path -> transcript (writer, lines)
    procs,      \* ids of the calls whose subprocess is in flight
    dispatched, \* ids of the calls, in the order call_tool was entered
    responses   \* what each call_tool invocation produced, in order

vars == <<inbox, sent, pc, call, now, files, procs, dispatched, responses>>

-----------------------------------------------------------------------------
(* Bounds of the model *)

MaxCalls == 2

MaxPieces == 3

-----------------------------------------------------------------------------
(* Text: Python str operations used by the server *)

Whitespace == {" ", "\n", "\t", "\r"}

RECURSIVE LStrip(_)
LStrip(s) ==
    IF s = <<>> THEN <<>>
    ELSE IF Head(s) \in Whitespace THEN LStrip(Tail(s)) ELSE s

RECURSIVE RStrip(_)
RStrip(s) ==
    IF s = <<>> THEN <<>>
    ELSE IF s[Len(s)] \in Whitespace THEN RStrip(SubSeq(s, 1, Len(s) - 1)) ELSE s

\* str.strip(): both ends, whitespace only
Strip(s) == RStrip(LStrip(s))

\* str.split("\n"): always at least one field, empty fields kept
RECURSIVE SplitLines(_)
SplitLines(s) ==
    IF \A i \in 1..Len(s) : s[i] # "\n" THEN <<s>>
    ELSE LET k == CHOOSE i \in 1..Len(s) :
                      s[i] = "\n" /\ \A j \in 1..(i - 1) : s[j] # "\n"
         IN  <<SubSeq(s, 1, k - 1)>> \o SplitLines(SubSeq(s, k + 1, Len(s)))

\* str.startswith at an offset (0-based offset i, as in the json scanner)
StartsWithAt(s, i, p) ==
    /\ i + Len(p) <= Len(s)
    /\ \A k \in 1..Len(p) : s[i + k] = p[k]

StartsWith(s, p) == StartsWithAt(s, 0, p)

\* ' '.join(args)
RECURSIVE JoinSpace(_)
JoinSpace(a) ==
    IF a = <<>> THEN <<>>
    ELSE IF Len(a) = 1 THEN <<a[1]>>
    ELSE <<a[1], " ">> \o JoinSpace(Tail(a))

StorePrefix == <<"/", "n", "i", "x", "/", "s", "t", "o", "r", "e", "/">>

-----------------------------------------------------------------------------
(* Python values a response field can hold (json.loads results and str) *)

PyStr(s)     == [kind |-> "str",   text |-> s,    elems |-> <<>>, keys |-> <<>>]
PyNum(s)     == [kind |-> "int",   text |-> s,    elems |-> <<>>, keys |-> <<>>]
PyConst(s)   == [kind |-> "const", text |-> s,    elems |-> <<>>, keys |-> <<>>]
PyList(es)   == [kind |-> "list",  text |-> <<>>, elems |-> es,   keys |-> <<>>]
PyDict(ks, es) == [kind |-> "dict", text |-> <<>>, elems |-> es,  keys |-> ks]

\* len(v) is defined for str, list and dict; TypeError for int, None, bool
HasLen(v) == v.kind \in {"str", "list", "dict"}

PyLen(v) ==
    CASE v.kind = "str"  -> Len(v.text)
      [] v.kind = "list" -> Len(v.elems)
      [] v.kind = "dict" -> Len(v.keys)
      [] OTHER           -> 0

-----------------------------------------------------------------------------
(* json.loads: the decoder of the standard library on the grammar           *)
(*   value := array | object | string | integer | null | true | false       *)
(* positions are 0-based offsets into the text, as in json.scanner          *)

Digits == {"0", "1", "2", "3", "4", "5", "6", "7", "8", "9"}

Literals == {<<"n", "u", "l", "l">>, <<"t", "r", "u", "e">>,
             <<"f", "a", "l", "s", "e">>}

Bad == [ok |-> FALSE, val |-> PyConst(<<>>), pos |-> 0]

Good(v, p) == [ok |-> TRUE, val |-> v, pos |-> p]

RECURSIVE SkipWs(_, _)
SkipWs(s, i) ==
    IF i < Len(s) /\ s[i + 1] \in Whitespace THEN SkipWs(s, i + 1) ELSE i

RECURSIVE DigitsEnd(_, _)
DigitsEnd(s, i) ==
    IF i < Len(s) /\ s[i + 1] \in Digits THEN DigitsEnd(s, i + 1) ELSE i

\* the closing quote of a string whose body starts at offset i, or -1;
\* a control character inside a string is rejected (strict mode)
RECURSIVE StringEnd(_, _)
StringEnd(s, i) ==
    IF i >= Len(s) THEN -1
    ELSE IF s[i + 1] = "\"" THEN i
    ELSE IF s[i + 1] \in {"\n", "\t", "\r", "\\"} THEN -1
    ELSE StringEnd(s, i + 1)

\* dict[key] = value: a repeated key keeps its place and takes the new value
DictPut(d, k, v) ==
    IF \E j \in 1..Len(d.keys) : d.keys[j] = k
    THEN LET j == CHOOSE j \in 1..Len(d.keys) : d.keys[j] = k
         IN  PyDict(d.keys, [d.elems EXCEPT ![j] = v])
    ELSE PyDict(Append(d.keys, k), Append(d.elems, v))

RECURSIVE ScanOnce(_, _), ScanArray(_, _, _), ScanObject(_, _, _)

ScanOnce(s, i) ==
    IF i >= Len(s) THEN Bad
    ELSE LET c == s[i + 1] IN
         IF c = "\"" THEN
            LET e == StringEnd(s, i + 1) IN
            IF e < 0 THEN Bad ELSE Good(PyStr(SubSeq(s, i + 2, e)), e + 1)
         ELSE IF c = "[" THEN
            LET j == SkipWs(s, i + 1) IN
            IF j < Len(s) /\ s[j + 1] = "]" THEN Good(PyList(<<>>), j + 1)
            ELSE ScanArray(s, j, <<>>)
         ELSE IF c = "{" THEN
            LET j == SkipWs(s, i + 1) IN
            IF j < Len(s) /\ s[j + 1] = "}" THEN Good(PyDict(<<>>, <<>>), j + 1)
            ELSE ScanObject(s, j, PyDict(<<>>, <<>>))
         ELSE IF c \in Digits THEN
            LET e == IF c = "0" THEN i + 1 ELSE DigitsEnd(s, i) IN
            Good(PyNum(SubSeq(s, i + 1, e)), e)
         ELSE IF \E l \in Literals : StartsWithAt(s, i, l) THEN
            LET l == CHOOSE l \in Literals : StartsWithAt(s, i, l) IN
            Good(PyConst(l), i + Len(l))
         ELSE Bad

\* the elements of an array from offset i on; acc holds those already read
ScanArray(s, i, acc) ==
    LET r == ScanOnce(s, i) IN
    IF ~r.ok THEN Bad
    ELSE LET j == SkipWs(s, r.pos) IN
         IF j >= Len(s) THEN Bad
         ELSE IF s[j + 1] = "]" THEN Good(PyList(Append(acc, r.val)), j + 1)
         ELSE IF s[j + 1] = "," THEN ScanArray(s, SkipWs(s, j + 1), Append(acc, r.val))
         ELSE Bad

\* the members of an object from offset i on (i is at the key's quote)
ScanObject(s, i, acc) ==
    IF i >= Len(s) \/ s[i + 1] # "\"" THEN Bad
    ELSE LET e == StringEnd(s, i + 1) IN
         IF e < 0 THEN Bad
         ELSE LET k == SubSeq(s, i + 2, e)
                  c == SkipWs(s, e + 1) IN
              IF c >= Len(s) \/ s[c + 1] # ":" THEN Bad
              ELSE LET r == ScanOnce(s, SkipWs(s, c + 1)) IN
                   IF ~r.ok THEN Bad
                   ELSE LET j == SkipWs(s, r.pos)
                            d == DictPut(acc, k, r.val) IN
                        IF j >= Len(s) THEN Bad
                        ELSE IF s[j + 1] = "}" THEN Good(d, j + 1)
                        ELSE IF s[j + 1] = "," THEN ScanObject(s, SkipWs(s, j + 1), d)
                        ELSE Bad

\* json.loads(s): one value, whitespace around it, nothing after it;
\* ok = FALSE stands for json.JSONDecodeError
JsonLoads(s) ==
    LET r == ScanOnce(s, SkipWs(s, 0)) IN
    IF r.ok /\ SkipWs(s, r.pos) = Len(s) THEN r ELSE Bad

-----------------------------------------------------------------------------
(* The tool catalog and the requests the host sends *)

\* list_tools(): the five catalog names, with the log prefix each branch of
\* call_tool passes to run_nix_command
ToolNames == {"nix_build", "nix_eval", "nix_flake_show", "nix_flake_check",
              "nix_search"}

LogPrefix(name) ==
    CASE name = "nix_build"       -> "build"
      [] name = "nix_eval"        -> "eval"
      [] name = "nix_flake_show"  -> "flake-show"
      [] name = "nix_flake_check" -> "flake-check"
      [] name = "nix_search"      -> "search"
      [] OTHER                    -> ""

\* the keys call_tool reads with arguments[...], which raises KeyError
RequiredArgs(name) ==
    CASE name = "nix_build"  -> {"flake_ref"}
      [] name = "nix_eval"   -> {"flake_ref"}
      [] name = "nix_search" -> {"query"}
      [] OTHER               -> {}

\* arguments.get(key, default)
Get(arguments, key, default) ==
    IF key \in DOMAIN arguments THEN arguments[key] ELSE default

\* the argument vector each branch builds
BuildArgs(name, arguments) ==
    CASE name = "nix_build" ->
            <<"nix", "build", arguments["flake_ref"], "--show-trace",
              "--print-out-paths">> \o Get(arguments, "extra_args", <<>>)
      [] name = "nix_eval" ->
            <<"nix", "eval", arguments["flake_ref"], "--show-trace">>
            \o (IF Get(arguments, "raw", FALSE) THEN <<"--raw">> ELSE <<>>)
            \o (IF Get(arguments, "json", FALSE) THEN <<"--json">> ELSE <<>>)
      [] name = "nix_flake_show" ->
            <<"nix", "flake", "show", Get(arguments, "flake_ref", "."), "--json">>
      [] name = "nix_flake_check" ->
            <<"nix", "flake", "check", Get(arguments, "flake_ref", "."),
              "--show-trace">>
      [] name = "nix_search" ->
            <<"nix", "search", Get(arguments, "flake_ref", "nixpkgs"),
              arguments["query"], "--json">>
      [] OTHER -> <<>>

NoArguments == [k \in {} |-> ""]

\* the requests the host sends in Spec
Requests ==
    {[name |-> "nix_build",       arguments |-> [flake_ref |-> ".#default"]],
     [name |-> "nix_build",       arguments |-> NoArguments],
     [name |-> "nix_eval",        arguments |-> [flake_ref |-> "nixpkgs#hello.version",
                                                 raw |-> TRUE]],
     [name |-> "nix_flake_show",  arguments |-> NoArguments],
     [name |-> "nix_flake_check", arguments |-> [flake_ref |-> "."]],
     [name |-> "nix_search",      arguments |-> [query |-> "hello"]],
     [name |-> "nix_frobnicate",  arguments |-> NoArguments],
     [name |-> "nix_frobnicate",  arguments |-> [flake_ref |-> "."]]}

-----------------------------------------------------------------------------
(* What the child process can do: exit code, stdout, stderr *)

\* the text made of the given pieces, in order
RECURSIVE Chars(_)
Chars(pieces) ==
    IF pieces = <<>> THEN <<>> ELSE Head(pieces) \o Chars(Tail(pieces))

ErrText == <<"e", "r", "r">>

\* the outcomes of a completed child in Spec: one success and one failure
\* per tool, and for nix_search JSON that is no array
SampleStdout(name) ==
    CASE name = "nix_build"      -> {StorePrefix \o <<"x", "\n">>}
      [] name = "nix_eval"       -> {<<"2", ".", "1", "\n">>}
      [] name = "nix_flake_show" -> {<<"{", "}">>}
      [] name = "nix_search"     -> {<<"[", "1", "]">>, <<"1">>}
      [] OTHER                   -> {<<>>}

Outcomes(name) ==
    {[returncode |-> 0, stdout |-> t, stderr |-> <<>>] : t \in SampleStdout(name)}
    \cup {[returncode |-> 1, stdout |-> <<>>, stderr |-> ErrText]}

-----------------------------------------------------------------------------
(* run_nix_command: the log path and the three transcripts *)

\* Path(f"/tmp/nix-mcp-{log_prefix}-{timestamp}.log"), the timestamp being
\* the clock reading formatted to the microsecond
LogPath(log_prefix, timestamp) ==
    <<"/tmp/nix-mcp-", log_prefix, "-", timestamp, ".log">>

Line(tag, text) == [tag |-> tag, text |-> text]

\* str(returncode), for the exit codes of the model
Str(n) == <<"0", "1", "2", "3", "4", "5", "6", "7", "8", "9">>[n + 1]

CommandLine(args) == Line("Command: ", JoinSpace(args))

\* the lines written after the child completed
CompletedTranscript(args, returncode, stdout, stderr) ==
    <<CommandLine(args), Line("Exit code: ", <<Str(returncode)>>),
      Line("=== STDOUT ===", stdout), Line("=== STDERR ===", stderr)>>

\* a handler that forgets the command line
TimeoutTranscriptNoCommand(args) ==
    <<Line("Error: ", <<"Command timed out after 300 seconds">>)>>

\* the lines written by the TimeoutExpired handler
TimeoutTranscript(args) ==
    <<CommandLine(args),
      Line("Error: ", <<"Command timed out after 300 seconds">>)>>

\* the lines written by the Exception handler
ErrorTranscript(args, error) ==
    <<CommandLine(args), Line("Error: ", <<error>>)>>

\* open(log_file, "w") and the writes succeed: the file holds exactly lines
WriteOk(fs, log_file, id, lines) ==
    (log_file :> [writer |-> id, lines |-> lines]) @@ fs

\* what a failed open(log_file, "w") + writes leave behind: nothing touched
\* (open raised), or the file truncated and empty (the text, smaller than
\* the io buffer, reaches the file at close, and the flush raised)
WriteFailed(fs, log_file, id, lines) ==
    {fs, WriteOk(fs, log_file, id, SubSeq(lines, 1, 0))}

-----------------------------------------------------------------------------
(* call_tool: shaping the runner's result into the response *)

Base(success, log_file) == [success |-> success, log_file |-> log_file]

\* result[key] = value
With(result, key, value) == (key :> value) @@ result

\* a branch that reads the first line of stdout instead of the last
ShapeBuildFirstLine(success, stdout, log_file) ==
    LET result == Base(success, log_file) IN
    IF success /\ Strip(stdout) # <<>>
    THEN LET lines == SplitLines(Strip(stdout))
             store_path == Strip(lines[1])
         IN  IF StartsWith(store_path, StorePrefix)
             THEN With(result, "store_path", store_path)
             ELSE result
    ELSE result

\* nix_build: lines 177-188
ShapeBuild(success, stdout, log_file) ==
    LET result == Base(success, log_file) IN
    IF success /\ Strip(stdout) # <<>>
    THEN LET lines == SplitLines(Strip(stdout))
             store_path == Strip(lines[Len(lines)])
         IN  IF StartsWith(store_path, StorePrefix)
             THEN With(result, "store_path", store_path)
             ELSE result
    ELSE result

\* a branch that forgets "if success"
ShapeEvalAlways(success, stdout, log_file) ==
    With(Base(success, log_file), "result", Strip(stdout))

\* nix_eval: lines 205-211
ShapeEval(success, stdout, log_file) ==
    LET result == Base(success, log_file) IN
    IF success THEN With(result, "result", Strip(stdout)) ELSE result

\* nix_flake_show: lines 221-230
ShapeFlakeShow(success, stdout, log_file) ==
    LET result == Base(success, log_file)
        parsed == JsonLoads(stdout)
    IN  IF ~success THEN result
        ELSE IF parsed.ok THEN With(result, "outputs", parsed.val)
        ELSE With(result, "outputs", PyStr(Strip(stdout)))

\* nix_flake_check: lines 240-243
ShapeFlakeCheck(success, stdout, log_file) == Base(success, log_file)

\* nix_search, lines 254-265, when it does not raise
ShapeSearch(success, stdout, log_file) ==
    LET result == Base(success, log_file)
        parsed == JsonLoads(stdout)
    IN  IF ~success THEN result
        ELSE IF parsed.ok
             THEN With(With(result, "results", parsed.val),
                       "count", PyLen(parsed.val))
        ELSE With(result, "results", PyStr(Strip(stdout)))

\* nix_search, line 263: len(search_results) raises TypeError, which the
\* except json.JSONDecodeError clause does not catch
SearchRaises(success, stdout) ==
    success /\ JsonLoads(stdout).ok /\ ~HasLen(JsonLoads(stdout).val)

\* whether shaping the response raises instead of returning
ShapeRaises(name, success, stdout) ==
    name = "nix_search" /\ SearchRaises(success, stdout)

\* the result dict the branch for name builds
Shape(name, success, stdout, log_file) ==
    CASE name = "nix_build"       -> ShapeBuild(success, stdout, log_file)
      [] name = "nix_eval"        -> ShapeEval(success, stdout, log_file)
      [] name = "nix_flake_show"  -> ShapeFlakeShow(success, stdout, log_file)
      [] name = "nix_flake_check" -> ShapeFlakeCheck(success, stdout, log_file)
      [] name = "nix_search"      -> ShapeSearch(success, stdout, log_file)

\* [TextContent(type="text", text=json.dumps(result, indent=2))]
JsonResponse(id, result) == [id |-> id, kind |-> "json", body |-> result]

\* an else branch that raises instead of returning the message
UnknownToolRaises(id, name) ==
    [id |-> id, kind |-> "raise", body |-> <<"ValueError">>]

\* [TextContent(type="text", text=f"Unknown tool: {name}")]
TextResponse(id, name) ==
    [id |-> id, kind |-> "text", body |-> <<"Unknown tool: ", name>>]

\* an exception leaves call_tool: the framework reports a call error
Raised(id, error) == [id |-> id, kind |-> "raise", body |-> <<error>>]

-----------------------------------------------------------------------------
(* The server: one event loop, one call_tool coroutine at a time *)

NoResult == [returncode |-> -1, stdout |-> <<>>, stderr |-> <<>>]

\* exit is the status the child exited with by itself, -1 while it has not;
\* error is the exception in flight
NoCall ==
    [id |-> 0, name |-> "", arguments |-> NoArguments, args |-> <<>>,
     log_file |-> <<>>, result |-> NoResult, exit |-> -1, error |-> "",
     success |-> FALSE, stdout |-> <<>>]

NoFiles == [p \in {} |-> 0]

Init ==
    /\ inbox = <<>>
    /\ sent = 0
    /\ pc = "idle"
    /\ call = NoCall
    /\ now = 0
    /\ files = NoFiles
    /\ procs = {}
    /\ dispatched = <<>>
    /\ responses = <<>>

\* the host writes a tool-call request to the server's stdin; it may do so
\* while an earlier call is still running
Receive(req) ==
    /\ sent < MaxCalls
    /\ sent' = sent + 1
    /\ inbox' = Append(inbox, [id |-> sent + 1, name |-> req.name,
                               arguments |-> req.arguments])
    /\ UNCHANGED <<pc, call, now, files, procs, dispatched, responses>>

\* a runner that awaits the child, letting the loop enter the next call
LoopFreeWhileChildRuns == pc \in {"idle", "running"}

\* call_tool is a coroutine that never awaits (subprocess.run blocks), so the
\* loop enters the next call only when the running one has returned
LoopFree == pc = "idle"

Entered(req) ==
    [NoCall EXCEPT !.id = req.id, !.name = req.name,
                   !.arguments = req.arguments]

\* the locals at line 38: args built by the branch, log_file by the runner
Started(req, clock) ==
    [Entered(req) EXCEPT
        !.args = BuildArgs(req.name, req.arguments),
        !.log_file = LogPath(LogPrefix(req.name), clock)]

Runnable(req) ==
    /\ req.name \in ToolNames
    /\ RequiredArgs(req.name) \subseteq DOMAIN req.arguments

\* else branch, line 270
DispatchUnknown ==
    /\ LoopFree /\ inbox # <<>>
    /\ Head(inbox).name \notin ToolNames
    /\ inbox' = Tail(inbox)
    /\ call' = Entered(Head(inbox))
    /\ dispatched' = Append(dispatched, Head(inbox).id)
    /\ responses' = Append(responses,
                           TextResponse(Head(inbox).id, Head(inbox).name))
    /\ UNCHANGED <<sent, pc, now, files, procs>>

\* arguments["flake_ref"] / arguments["query"] raises KeyError
DispatchMissingArgument ==
    /\ LoopFree /\ inbox # <<>>
    /\ Head(inbox).name \in ToolNames
    /\ ~Runnable(Head(inbox))
    /\ inbox' = Tail(inbox)
    /\ call' = Entered(Head(inbox))
    /\ dispatched' = Append(dispatched, Head(inbox).id)
    /\ responses' = Append(responses, Raised(Head(inbox).id, "KeyError"))
    /\ UNCHANGED <<sent, pc, now, files, procs>>

\* a tool branch up to subprocess.run, with the child started; the call
\* takes time, so the clock has moved on when anything else reads it
RunSubprocess ==
    /\ LoopFree /\ inbox # <<>>
    /\ Runnable(Head(inbox))
    /\ inbox' = Tail(inbox)
    /\ call' = Started(Head(inbox), now)
    /\ now' = now + 1
    /\ dispatched' = Append(dispatched, Head(inbox).id)
    /\ procs' = procs \cup {Head(inbox).id}
    /\ pc' = "running"
    /\ UNCHANGED <<sent, files, responses>>

\* the same, with subprocess.run failing to start the child (no nix on PATH)
LaunchFails ==
    /\ LoopFree /\ inbox # <<>>
    /\ Runnable(Head(inbox))
    /\ inbox' = Tail(inbox)
    /\ call' = [Started(Head(inbox), now) EXCEPT !.error = "FileNotFoundError"]
    /\ now' = now + 1
    /\ dispatched' = Append(dispatched, Head(inbox).id)
    /\ pc' = "except_exception"
    /\ UNCHANGED <<sent, files, procs, responses>>

\* the child exits and subprocess.run returns the CompletedProcess
ProcessExits(o) ==
    /\ pc = "running"
    /\ call' = [call EXCEPT !.result = o, !.exit = o.returncode]
    /\ procs' = procs \ {call.id}
    /\ pc' = "write_log"
    /\ UNCHANGED <<inbox, sent, now, files, dispatched, responses>>

\* the child exits with status c, but its output is not valid text in the
\* locale's encoding: text=True makes subprocess.run raise UnicodeDecodeError
OutputUndecodable(c) ==
    /\ pc = "running"
    /\ call' = [call EXCEPT !.exit = c, !.error = "UnicodeDecodeError"]
    /\ procs' = procs \ {call.id}
    /\ pc' = "except_exception"
    /\ UNCHANGED <<inbox, sent, now, files, dispatched, responses>>

\* timeout=300: subprocess.run kills the child, reaps it, raises TimeoutExpired
ProcessTimesOut ==
    /\ pc = "running"
    /\ call' = [call EXCEPT !.error = "TimeoutExpired"]
    /\ procs' = procs \ {call.id}
    /\ pc' = "except_timeout"
    /\ UNCHANGED <<inbox, sent, now, files, dispatched, responses>>

\* lines 47-54: the transcript is written and the runner returns
WriteLog ==
    /\ pc = "write_log"
    /\ files' = WriteOk(files, call.log_file, call.id,
                        CompletedTranscript(call.args, call.result.returncode,
                                            call.result.stdout, call.result.stderr))
    /\ call' = [call EXCEPT !.success = (call.result.returncode = 0),
                            !.stdout = call.result.stdout]
    /\ pc' = "returned"
    /\ UNCHANGED <<inbox, sent, now, procs, dispatched, responses>>

\* lines 47-51 raise OSError (disk full, /tmp not writable): the try block
\* is left for the Exception handler
WriteLogFails ==
    /\ pc = "write_log"
    /\ files' \in WriteFailed(files, call.log_file, call.id,
                        CompletedTranscript(call.args, call.result.returncode,
                                            call.result.stdout, call.result.stderr))
    /\ call' = [call EXCEPT !.error = "OSError"]
    /\ pc' = "except_exception"
    /\ UNCHANGED <<inbox, sent, now, procs, dispatched, responses>>

\* lines 56-60
ExceptTimeout ==
    /\ pc = "except_timeout"
    /\ files' = WriteOk(files, call.log_file, call.id, TimeoutTranscript(call.args))
    /\ call' = [call EXCEPT !.success = FALSE, !.stdout = <<>>]
    /\ pc' = "returned"
    /\ UNCHANGED <<inbox, sent, now, procs, dispatched, responses>>

\* lines 57-59 raise inside the handler: nothing catches it
ExceptTimeoutFails ==
    /\ pc = "except_timeout"
    /\ files' \in WriteFailed(files, call.log_file, call.id,
                              TimeoutTranscript(call.args))
    /\ responses' = Append(responses, Raised(call.id, "OSError"))
    /\ pc' = "idle"
    /\ UNCHANGED <<inbox, sent, call, now, procs, dispatched>>

\* lines 61-65
ExceptException ==
    /\ pc = "except_exception"
    /\ files' = WriteOk(files, call.log_file, call.id,
                        ErrorTranscript(call.args, call.error))
    /\ call' = [call EXCEPT !.success = FALSE, !.stdout = <<>>]
    /\ pc' = "returned"
    /\ UNCHANGED <<inbox, sent, now, procs, dispatched, responses>>

\* lines 62-64 raise inside the handler: nothing catches it
ExceptExceptionFails ==
    /\ pc = "except_exception"
    /\ files' \in WriteFailed(files, call.log_file, call.id,
                              ErrorTranscript(call.args, call.error))
    /\ responses' = Append(responses, Raised(call.id, "OSError"))
    /\ pc' = "idle"
    /\ UNCHANGED <<inbox, sent, call, now, procs, dispatched>>

\* the rest of the tool branch: shape the result and return it
Respond ==
    /\ pc = "returned"
    /\ responses' = Append(responses,
          IF ShapeRaises(call.name, call.success, call.stdout)
          THEN Raised(call.id, "TypeError")
          ELSE JsonResponse(call.id, Shape(call.name, call.success,
                                           call.stdout, call.log_file)))
    /\ pc' = "idle"
    /\ UNCHANGED <<inbox, sent, call, now, files, procs, dispatched>>

\* datetime.now() is the naive local wall clock: it repeats a reading when
\* the clock is stepped back (NTP step, the repeated hour at the end of DST).
\* Only line 35 reads it, so the step is taken when a call is about to start
ClockSetBack ==
    /\ LoopFree /\ inbox # <<>>
    /\ now > 0
    /\ now' \in 0..(now - 1)
    /\ UNCHANGED <<inbox, sent, pc, call, files, procs, dispatched, responses>>

Next ==
    \/ \E req \in Requests : Receive(req)
    \/ DispatchUnknown
    \/ DispatchMissingArgument
    \/ RunSubprocess
    \/ LaunchFails
    \/ \E o \in Outcomes(call.name) : ProcessExits(o)
    \/ \E c \in {0, 1} : OutputUndecodable(c)
    \/ ProcessTimesOut
    \/ WriteLog
    \/ WriteLogFails
    \/ ExceptTimeout
    \/ ExceptTimeoutFails
    \/ ExceptException
    \/ ExceptExceptionFails
    \/ Respond
    \/ ClockSetBack

Spec == Init /\ [][Next]_vars

-----------------------------------------------------------------------------
(* Response shaping on its own: every text the runner can return *)

BuildPieces == {<<" ">>, <<"\n">>, <<"x">>, StorePrefix}

JsonPieces ==
    {<<"[">>, <<"]">>, <<"1">>, <<",", "1">>, <<"{", "\"", "k", "\"", ":">>,
     <<"}">>, <<"\"", "k", "\"">>, <<" ">>, <<"x">>, <<"n", "u", "l", "l">>}

\* the texts made of at most MaxPieces pieces
Texts(pieces) ==
    {Chars(ps) : ps \in UNION {[1..n -> pieces] : n \in 0..MaxPieces}}

StdoutTexts(name) ==
    IF name \in {"nix_flake_show", "nix_search"}
    THEN Texts(JsonPieces) ELSE Texts(BuildPieces)

\* one runnable request per tool
TextRequests == {r \in Requests : r.name \in ToolNames /\ Runnable(r)}

\* the state in which run_nix_command has just returned (success, stdout,
\* log_file) to the tool branch, the child having exited with stdout t
Returned(req, success, t) ==
    [Started(req, 0) EXCEPT
        !.result = [returncode |-> IF success THEN 0 ELSE 1,
                    stdout |-> t, stderr |-> <<>>],
        !.exit = IF success THEN 0 ELSE 1,
        !.success = success,
        !.stdout = t]

InitText ==
    \E r \in TextRequests, success \in BOOLEAN :
      \E t \in StdoutTexts(r.name) :
        LET req == [id |-> 1, name |-> r.name, arguments |-> r.arguments]
            c == Returned(req, success, t)
        IN  /\ inbox = <<>>
            /\ sent = 1
            /\ pc = "returned"
            /\ call = c
            /\ now = 1
            /\ files = WriteOk(NoFiles, c.log_file, 1,
                               CompletedTranscript(c.args, c.result.returncode,
                                                   t, <<>>))
            /\ procs = {}
            /\ dispatched = <<1>>
            /\ responses = <<>>

NextText == Respond

SpecText == InitText /\ [][NextText]_vars

-----------------------------------------------------------------------------
(* Properties *)

\* the outcome of the latest call_tool invocation
Last == responses[Len(responses)]

\* the call whose locals are in `call` has produced its outcome
Answered == pc = "idle" /\ responses # <<>> /\ Last.id = call.id

AnsweredJson == Answered /\ Last.kind = "json"

Keys == DOMAIN Last.body

ToolKeys == {"store_path", "result", "outputs", "results", "count"}

\* the log files this call wrote
WrittenBy(id) == {p \in DOMAIN files : files[p].writer = id}

InRunner == {"running", "write_log", "except_timeout", "except_exception"}

\* the lines of a text that hold something other than whitespace
NonBlankLines(t) ==
    {i \in 1..Len(SplitLines(t)) : Strip(SplitLines(t)[i]) # <<>>}

\* the last of them (when there is one)
LastNonBlankLine(t) ==
    SplitLines(t)[CHOOSE i \in NonBlankLines(t) :
                      \A j \in NonBlankLines(t) : j <= i]

\* C1: when run_nix_command returns (after a completed child, a timeout or
\* any other failure), the file at the returned log path exists, was written
\* by this call, starts with the "Command: " line of the argument vector that
\* was executed, and is the only log file this call wrote.
C1_TranscriptAtReturnedPath ==
    pc = "returned" =>
        /\ call.log_file \in DOMAIN files
        /\ files[call.log_file].writer = call.id
        /\ files[call.log_file].lines # <<>>
        /\ files[call.log_file].lines[1] =
               [tag |-> "Command: ", text |-> JoinSpace(call.args)]
        /\ WrittenBy(call.id) = {call.log_file}

\* the runner has returned from its timeout handler
C1_Witness ==
    /\ pc = "returned"
    /\ call.error = "TimeoutExpired"
    /\ call.log_file \in DOMAIN files
    /\ Len(files[call.log_file].lines) = 2

\* C2: the response's success field is true if and only if the child ran to
\* completion and exited with status 0.
C2_SuccessIffExitZero ==
    AnsweredJson => (Last.body.success <=> call.exit = 0)

\* C3: run_nix_command is left only by returning its triple, never by an
\* exception, and it returns success = false and stdout = "" from the timeout
\* handler and from the handler of any other failure.
C3_RunnerNeverRaises ==
    [][/\ pc \in InRunner => pc' \in InRunner \cup {"returned"}
       /\ (pc \in {"except_timeout", "except_exception"} /\ pc' = "returned")
              => (~call'.success /\ call'.stdout = <<>>)]_vars

\* C4: every JSON response holds success and log_file; a tool-specific key is
\* there only when success is true; when the child did not exit with status 0
\* the response is exactly {success: false, log_file}; after a timeout the
\* difference is in the transcript alone, which holds the timeout notice.
C4_ResponseShape ==
    AnsweredJson =>
        /\ {"success", "log_file"} \subseteq Keys
        /\ Last.body.log_file = call.log_file
        /\ (Keys \cap ToolKeys # {} => Last.body.success)
        /\ (call.exit # 0 =>
               Last.body = [success |-> FALSE, log_file |-> call.log_file])
        /\ (call.error = "TimeoutExpired" =>
               /\ call.log_file \in DOMAIN files
               /\ files[call.log_file].lines[2] =
                      [tag |-> "Error: ",
                       text |-> <<"Command timed out after 300 seconds">>])

\* a call that timed out has been answered
C4_Witness == AnsweredJson /\ call.error = "TimeoutExpired"

\* C5 as stated: the nix_build response holds store_path if and only if the
\* call succeeded and the last non-blank line of stdout starts with
\* /nix/store/, and store_path is then that line without surrounding
\* whitespace.
C5_StorePathIffLineStartsWithPrefix ==
    (AnsweredJson /\ call.name = "nix_build") =>
        /\ "store_path" \in Keys <=>
              /\ call.success
              /\ NonBlankLines(call.stdout) # {}
              /\ StartsWith(LastNonBlankLine(call.stdout), StorePrefix)
        /\ "store_path" \in Keys =>
              Last.body.store_path = Strip(LastNonBlankLine(call.stdout))

\* C5 as amended: the nix_build response holds store_path if and only if the
\* call succeeded and the last non-blank line of stdout, with its surrounding
\* whitespace removed, starts with /nix/store/; store_path is then that
\* trimmed line.
C5_StorePathIffTrimmedLineStartsWithPrefix ==
    (AnsweredJson /\ call.name = "nix_build") =>
        /\ "store_path" \in Keys <=>
              /\ call.success
              /\ NonBlankLines(call.stdout) # {}
              /\ StartsWith(Strip(LastNonBlankLine(call.stdout)), StorePrefix)
        /\ "store_path" \in Keys =>
              Last.body.store_path = Strip(LastNonBlankLine(call.stdout))

\* a store path reported from an indented last line below an earlier line
C5_Witness ==
    /\ AnsweredJson /\ call.name = "nix_build"
    /\ "store_path" \in Keys
    /\ Len(SplitLines(call.stdout)) > 1
    /\ ~StartsWith(LastNonBlankLine(call.stdout), StorePrefix)

\* C6: a successful nix_search answers with a response that holds count
\* exactly when results is a parsed JSON array, count being its length.
C6_CountIffArray ==
    (Answered /\ call.name = "nix_search" /\ call.success) =>
        /\ Last.kind = "json"
        /\ "count" \in Keys <=>
              (JsonLoads(call.stdout).ok /\ JsonLoads(call.stdout).val.kind = "list")
        /\ "count" \in Keys =>
              Last.body.count = Len(Last.body.results.elems)

\* C7: a successful nix_flake_show / nix_search answers with outputs / results
\* equal to the parsed structure when stdout parses as JSON, and to the
\* trimmed stdout when it does not.
C7_ParsedOrTrimmed ==
    (Answered /\ call.name \in {"nix_flake_show", "nix_search"} /\ call.success) =>
        /\ Last.kind = "json"
        /\ LET field == IF call.name = "nix_search" THEN "results" ELSE "outputs"
           IN  /\ field \in Keys
               /\ Last.body[field] =
                     IF JsonLoads(call.stdout).ok
                     THEN JsonLoads(call.stdout).val
                     ELSE PyStr(Strip(call.stdout))

\* C8: a call with a name outside the catalog is answered with the text
\* "Unknown tool: <name>"; it starts no child and writes no log file.
C8_UnknownTool ==
    (Answered /\ call.name \notin ToolNames) =>
        /\ Last.kind = "text"
        /\ Last.body = <<"Unknown tool: ", call.name>>
        /\ WrittenBy(call.id) = {}
        /\ call.id \notin procs
        /\ call.args = <<>> /\ call.exit = -1

\* an unknown tool called with arguments, after an earlier call wrote a log
C8_Witness ==
    /\ Answered /\ call.name = "nix_frobnicate"
    /\ call.arguments # NoArguments
    /\ DOMAIN files # {}

\* C9: any two calls that reach the Command Runner return distinct log file
\* paths.
C9_DistinctLogPaths ==
    \A i, j \in DOMAIN responses :
        (i # j /\ responses[i].kind = "json" /\ responses[j].kind = "json")
            => responses[i].body.log_file # responses[j].body.log_file

\* C10: at most one child is in flight, a call is answered only when its
\* child is gone, at most one call is between dispatch and answer, and the
\* answers come in the order of dispatch.
C10_OneCallAtATime ==
    /\ Cardinality(procs) <= 1
    /\ Len(responses) <= Len(dispatched)
    /\ Len(dispatched) <= Len(responses) + 1
    /\ (pc = "idle" => Len(dispatched) = Len(responses))
    /\ \A i \in DOMAIN responses :
          /\ responses[i].id = dispatched[i]
          /\ responses[i].id \notin procs

\* the host has pipelined a request while a child is running
C10_Witness == pc = "running" /\ inbox # <<>> /\ procs # {}

====
